---- MODULE Spec2Model ----
(***************************************************************************)
(* The report-generation pipeline of investment.py: ask_groq,             *)
(* compare_stocks, get_company_info, get_company_news,                    *)
(* get_market_analysis, get_company_analysis, get_stock_recommendations   *)
(* and get_final_report.                                                  *)
(*                                                                         *)
(* The market-data provider (yfinance) and the completion service (Groq)  *)
(* are the environment: every lookup and every HTTP exchange is an input  *)
(* chosen afresh at the call, so the same symbol or the same prompt may   *)
(* be answered differently on successive calls.                           *)
(*                                                                         *)
(* Python values that reach a prompt or the caller are records            *)
(* [type, text]: a str is a sequence of tokens, None has type NoneType.   *)
(***************************************************************************)
EXTENDS Integers, Sequences, FiniteSets, TLC

\* ---------------------------------------------------------------- bounds
MaxLen == 2      \* longest symbol list given to the pipeline
MaxHist == 2     \* longest closing-price series the provider returns
MaxNews == 6     \* longest news list the provider returns

\* ------------------------------------------------------- program constants
NewsLimit == 5   \* stock.news[:5]

Symbols == {"AAPL", "ZZZZINVALID"}
Prices == {1, 2}
GenTexts == {"t1", "t2"}

Marker == "Groq API Error:"
Sentinel == "No valid stock data found."
NA == "N/A"

\* ------------------------------------------------------------ Python values
Str(t) == [type |-> "str", text |-> t]
PyNone == [type |-> "NoneType", text |-> <<>>]

\* f-string interpolation {v}: str(v); str(None) is the text None
Fmt(v) == IF v.type = "NoneType" THEN <<"None">> ELSE v.text

Range(s) == {s[k] : k \in DOMAIN s}

SeqsUpTo(S, n) == UNION {[1..k -> S] : k \in 0..n}

\* ------------------------------------------------- the completion service
\* One HTTP exchange as ask_groq sees it: requests.post raising, a non-2xx
\* status, a body that is not JSON, a JSON body lacking part of the path
\* ["choices"][0]["message"]["content"], or a body holding that path.
FailKinds ==
  {"transport_error", "http_error", "invalid_json", "no_choices",
   "empty_choices", "no_message", "no_content"}

\* what sits at ["choices"][0]["message"]["content"]: JSON null or a text
Contents == {PyNone} \cup {Str(<<t>>) : t \in GenTexts}

Responses ==
  {[kind |-> k, content |-> PyNone] : k \in FailKinds}
    \cup {[kind |-> "ok", content |-> c] : c \in Contents}

\* the exchanges the pipeline runs draw from: one failure, and every body
PipeResponses == {r \in Responses : r.kind \in {"http_error", "ok"}}

\* try: post; raise_for_status; return json()[...]["content"]
\* except Exception as e: return f"Groq API Error: {str(e)}"
ask_groq(prompt, resp) ==
  IF resp.kind \in FailKinds THEN Str(<<Marker, resp.kind>>) ELSE resp.content

IsError(v) == v.type = "str" /\ Len(v.text) >= 1 /\ v.text[1] = Marker

\* ------------------------------------------------ the market-data provider
\* stock.history(period="6mo"): raises, or returns a closing-price series
Histories == SeqsUpTo(Prices, MaxHist)
HistOutcomes ==
  {[kind |-> "raise", close |-> <<>>]} \cup {[kind |-> "ok", close |-> c] : c \in Histories}

\* the history outcomes the pipeline runs draw from
HistSamples ==
  {[kind |-> "raise", close |-> <<>>], [kind |-> "ok", close |-> <<>>],
   [kind |-> "ok", close |-> <<1, 2>>]}

\* hist['Close'].pct_change().sum(), in percent: the first row's change is
\* NaN and sum() skips it
RECURSIVE PctChangeSum(_)
PctChangeSum(close) ==
  IF Len(close) <= 1 THEN 0
  ELSE PctChangeSum(SubSeq(close, 1, Len(close) - 1))
         + ((close[Len(close)] - close[Len(close) - 1]) * 100) \div close[Len(close) - 1]

HasData(h) == h.kind = "ok" /\ h.close # <<>>

\* a dict as a function on its keys
EmptyDict == [s \in {} |-> 0]

\* a dict whose assignment keeps the first value of a key
Put_keep_first(d, k, v) ==
  IF k \in DOMAIN d THEN d
  ELSE [x \in DOMAIN d \cup {k} |-> IF x = k THEN v ELSE d[x]]

\* d[k] = v adds the key or overwrites its value
Put(d, k, v) == [x \in DOMAIN d \cup {k} |-> IF x = k THEN v ELSE d[x]]

\* compare_stocks without the hist.empty test
RECURSIVE compare_stocks_keep_empty(_, _)
compare_stocks_keep_empty(symbols, hs) ==
  IF symbols = <<>> THEN EmptyDict
  ELSE LET n == Len(symbols)
           data == compare_stocks_keep_empty(SubSeq(symbols, 1, n - 1), SubSeq(hs, 1, n - 1))
       IN  IF hs[n].kind = "raise" THEN data
           ELSE Put(data, symbols[n], PctChangeSum(hs[n].close))

\* for symbol in symbols: try: hist = history(); if hist.empty: continue;
\* data[symbol] = pct_change().sum()  except: continue
\* hs[k] is the outcome of the k-th iteration's history lookup
RECURSIVE compare_stocks(_, _)
compare_stocks(symbols, hs) ==
  IF symbols = <<>> THEN EmptyDict
  ELSE LET n == Len(symbols)
           data == compare_stocks(SubSeq(symbols, 1, n - 1), SubSeq(hs, 1, n - 1))
       IN  IF HasData(hs[n]) THEN Put(data, symbols[n], PctChangeSum(hs[n].close))
           ELSE data

\* stock.info: the lookup raises, or yields a dict in which each key is
\* absent, present with null, or present with a value
InfoKeys == {"longName", "sector", "marketCap", "longBusinessSummary"}
Absent == "<absent>"
Null == "<null>"
FieldVals == {Absent, Null, "v"}
NoInfo == [k \in InfoKeys |-> Absent]
InfoOutcomes ==
  {[exc |-> TRUE, rec |-> NoInfo]} \cup {[exc |-> FALSE, rec |-> r] : r \in [InfoKeys -> FieldVals]}

\* the info outcomes the pipeline runs draw from: the lookup raises, or
\* yields a dict without any of the keys
InfoSamples == {[exc |-> TRUE, rec |-> NoInfo], [exc |-> FALSE, rec |-> NoInfo]}

\* dict.get(key, default)
DictGet(rec, key, default) == IF rec[key] = Absent THEN default ELSE rec[key]

NoProfile == [name |-> "", sector |-> "", market_cap |-> "", summary |-> ""]

\* get_company_info falling back on every field as soon as one is missing
get_company_info_all_or_nothing(symbol, info) ==
  [exc |-> info.exc,
   ret |-> IF info.exc THEN NoProfile
           ELSE IF \E k \in InfoKeys : info.rec[k] = Absent
           THEN [name |-> symbol, sector |-> NA, market_cap |-> NA, summary |-> NA]
           ELSE [name |-> info.rec["longName"], sector |-> info.rec["sector"],
                 market_cap |-> info.rec["marketCap"],
                 summary |-> info.rec["longBusinessSummary"]]]

\* stock = yf.Ticker(symbol); return {"name": stock.info.get("longName", symbol), ...}
\* an exception of stock.info is not caught here
get_company_info(symbol, info) ==
  [exc |-> info.exc,
   ret |-> IF info.exc THEN NoProfile
           ELSE [name |-> DictGet(info.rec, "longName", symbol),
                 sector |-> DictGet(info.rec, "sector", NA),
                 market_cap |-> DictGet(info.rec, "marketCap", NA),
                 summary |-> DictGet(info.rec, "longBusinessSummary", NA)]]

\* stock.news: the attribute is missing, reading it raises (hasattr lets
\* every exception but AttributeError through), or it is a list
NewsOutcomes ==
  {[kind |-> "raise", items |-> <<>>], [kind |-> "noattr", items |-> <<>>]}
    \cup {[kind |-> "list", items |-> [k \in 1..n |-> k]] : n \in 0..MaxNews}

\* the news outcomes the pipeline runs draw from: the lookup raises, or
\* yields one item
NewsSamples == {[kind |-> "raise", items |-> <<>>], [kind |-> "list", items |-> <<1>>]}

Min(a, b) == IF a <= b THEN a ELSE b

\* return stock.news[:5] if hasattr(stock, "news") else []
get_company_news(nw) ==
  [exc |-> nw.kind = "raise",
   ret |-> IF nw.kind = "list" THEN SubSeq(nw.items, 1, Min(NewsLimit, Len(nw.items)))
           ELSE <<>>]

\* -------------------------------------------------------- AI logic layers
NoPrompt == <<>>

\* line 74: f"Compare these stock performances over the last 6 months: {data}"
MarketPrompt(data) ==
  [head |-> "Compare these stock performances over the last 6 months:", data |-> data]

\* get_market_analysis without the short-circuit on an empty map
get_market_analysis_always_asks(symbols, hs, resp) ==
  LET data == compare_stocks(symbols, hs)
  IN  [ret |-> ask_groq(MarketPrompt(data), resp), calls |-> 1,
       prompt |-> MarketPrompt(data)]

\* get_market_analysis short-circuiting as soon as one symbol has no entry
get_market_analysis_any_missing(symbols, hs, resp) ==
  LET data == compare_stocks(symbols, hs)
  IN  IF DOMAIN data # Range(symbols)
      THEN [ret |-> Str(<<Sentinel>>), calls |-> 0, prompt |-> NoPrompt]
      ELSE [ret |-> ask_groq(MarketPrompt(data), resp), calls |-> 1,
            prompt |-> MarketPrompt(data)]

\* data = compare_stocks(symbols); if not data: return sentinel
\* return ask_groq(f"Compare ...: {data}")
\* calls is the number of completion-service calls made
get_market_analysis(symbols, hs, resp) ==
  LET data == compare_stocks(symbols, hs)
  IN  IF DOMAIN data = {}
      THEN [ret |-> Str(<<Sentinel>>), calls |-> 0, prompt |-> NoPrompt]
      ELSE [ret |-> ask_groq(MarketPrompt(data), resp), calls |-> 1,
            prompt |-> MarketPrompt(data)]

\* lines 79-86: the prompt of get_company_analysis
CompanyPrompt(profile, news) ==
  [head |-> "Analyze the following company:", name |-> profile.name,
   sector |-> profile.sector, market_cap |-> profile.market_cap,
   summary |-> profile.summary, news |-> news]

\* get_company_analysis asking a second time after an error string
get_company_analysis_retries(symbol, info, nw, resp) ==
  LET i == get_company_info(symbol, info)
      n == get_company_news(nw)
      out == ask_groq(CompanyPrompt(i.ret, n.ret), resp)
  IN  IF i.exc \/ n.exc
      THEN [exc |-> TRUE, ret |-> PyNone, calls |-> 0, prompt |-> NoPrompt]
      ELSE [exc |-> FALSE, ret |-> out, calls |-> IF IsError(out) THEN 2 ELSE 1,
            prompt |-> CompanyPrompt(i.ret, n.ret)]

\* info = get_company_info(symbol); news = get_company_news(symbol)
\* return ask_groq(prompt); an exception of either lookup propagates
get_company_analysis(symbol, info, nw, resp) ==
  LET i == get_company_info(symbol, info)
      n == get_company_news(nw)
  IN  IF i.exc \/ n.exc
      THEN [exc |-> TRUE, ret |-> PyNone, calls |-> 0, prompt |-> NoPrompt]
      ELSE [exc |-> FALSE, ret |-> ask_groq(CompanyPrompt(i.ret, n.ret), resp),
            calls |-> 1, prompt |-> CompanyPrompt(i.ret, n.ret)]

\* lines 92-96: prompt = f"Based on this market analysis: {analysis} And the
\* following company data: {company_data} ..."
RecPrompt(analysis, company_data) ==
  [analysis |-> Fmt(analysis),
   company_data |-> [s \in DOMAIN company_data |-> Fmt(company_data[s])]]

\* a final prompt that leaves error strings out of the company profiles
FinalPrompt_skips_degraded(market, companies, recs) ==
  LET kept == SelectSeq(companies, LAMBDA c : ~IsError(c))
  IN  [market |-> Fmt(market),
       companies |-> [k \in 1..Len(kept) |-> Fmt(kept[k])],
       recs |-> Fmt(recs)]

\* lines 103-114: final_prompt = f"Market Overview: {market} Company Profiles:
\* {companies} Recommendations: {recs} ..."
FinalPrompt(market, companies, recs) ==
  [market |-> Fmt(market),
   companies |-> [k \in 1..Len(companies) |-> Fmt(companies[k])],
   recs |-> Fmt(recs)]

\* ------------------------------------------------------------------ state
VARIABLES
  symbols,       \* the argument of get_final_report
  pc,            \* the line get_final_report (or its callee) is at
  j,             \* index of the comprehension at lines 101 / 91
  market,        \* get_final_report: market
  companies,     \* get_final_report: companies
  recs,          \* get_final_report: recs
  report,        \* what get_final_report returned
  analysis,      \* get_stock_recommendations: analysis
  company_data,  \* get_stock_recommendations: company_data
  final_prompt,  \* the prompt get_final_report sent
  calls,         \* completion-service calls issued so far
  okfetch,       \* per round: did some history lookup return a non-empty series
  degraded,      \* a completion call returned an error string, or a market
                 \* analysis short-circuited to the sentinel
  log1,          \* calls made by get_final_report: [fn, arg, ret, call]
  log2,          \* calls made by get_stock_recommendations: [fn, arg, ret, call]
  fn,            \* unit runs: the function called
  arg,           \* unit runs: its arguments and the provider outcomes it meets
  res            \* unit runs: its result

vars ==
  <<symbols, pc, j, market, companies, recs, report, analysis, company_data,
    final_prompt, calls, okfetch, degraded, log1, log2, fn, arg, res>>

pipevars ==
  <<symbols, pc, j, market, companies, recs, report, analysis, company_data,
    final_prompt, calls, okfetch, degraded, log1, log2>>

unitvars == <<fn, arg, res>>

Unset == [type |-> "unset", text |-> <<>>]

SymbolLists == SeqsUpTo(Symbols, MaxLen)

N == Len(symbols)

\* the entry a call leaves in its caller's log; call is the number of the
\* completion call that produced ret, 0 when none was made
Entry(f, a, r) ==
  [fn |-> f, arg |-> a, ret |-> r.ret, call |-> IF r.calls = 1 THEN calls + 1 ELSE 0]

\* no frame of the pipeline holds anything
NoFrames ==
  /\ j = 0
  /\ market = Unset /\ companies = <<>> /\ recs = Unset /\ report = Unset
  /\ analysis = Unset /\ company_data = EmptyDict
  /\ final_prompt = NoPrompt
  /\ log1 = <<>> /\ log2 = <<>>

PipeIdle ==
  /\ symbols = <<>> /\ pc = "idle" /\ NoFrames
  /\ calls = 0 /\ okfetch = <<FALSE, FALSE>> /\ degraded = FALSE

UnitIdle == fn = "none" /\ arg = <<>> /\ res = <<>>

\* get_final_report(symbols) is entered
Init ==
  /\ symbols \in SymbolLists /\ pc = "market1" /\ NoFrames
  /\ calls = 0 /\ okfetch = <<FALSE, FALSE>> /\ degraded = FALSE
  /\ UnitIdle

\* an exception leaves get_final_report: every frame is unwound
Raise ==
  /\ pc' = "raised"
  /\ j' = 0
  /\ market' = Unset /\ companies' = <<>> /\ recs' = Unset /\ report' = Unset
  /\ analysis' = Unset /\ company_data' = EmptyDict
  /\ final_prompt' = NoPrompt
  /\ log1' = <<>> /\ log2' = <<>>
  /\ UNCHANGED <<symbols, calls, okfetch, degraded, unitvars>>

Degrades(r) == IsError(r.ret) \/ r.ret = Str(<<Sentinel>>)

\* line 100: market = get_market_analysis(symbols)
MarketAnalysis1 ==
  /\ pc = "market1"
  /\ \E hs \in [1..N -> HistSamples], resp \in PipeResponses :
       LET r == get_market_analysis(symbols, hs, resp)
       IN  /\ market' = r.ret
           /\ calls' = calls + r.calls
           /\ okfetch' = [okfetch EXCEPT ![1] = \E k \in 1..N : HasData(hs[k])]
           /\ degraded' = (degraded \/ Degrades(r))
           /\ log1' = Append(log1, Entry("get_market_analysis", symbols, r))
  /\ j' = 1
  /\ pc' = IF N = 0 THEN "market2" ELSE "companies1"
  /\ UNCHANGED <<symbols, companies, recs, report, analysis, company_data,
                 final_prompt, log2, unitvars>>

\* line 101: companies = [get_company_analysis(s) for s in symbols], one element
CompanyAnalysis1 ==
  /\ pc = "companies1"
  /\ \E info \in InfoSamples, nw \in NewsSamples, resp \in PipeResponses :
       LET r == get_company_analysis(symbols[j], info, nw, resp)
       IN  IF r.exc
           THEN Raise
           ELSE /\ companies' = Append(companies, r.ret)
                /\ calls' = calls + r.calls
                /\ degraded' = (degraded \/ Degrades(r))
                /\ log1' = Append(log1, Entry("get_company_analysis", <<symbols[j]>>, r))
                /\ j' = IF j = N THEN 1 ELSE j + 1
                /\ pc' = IF j = N THEN "market2" ELSE "companies1"
                /\ UNCHANGED <<symbols, market, recs, report, analysis, company_data,
                               final_prompt, okfetch, log2, unitvars>>

\* line 102 -> line 90: analysis = get_market_analysis(symbols)
MarketAnalysis2 ==
  /\ pc = "market2"
  /\ \E hs \in [1..N -> HistSamples], resp \in PipeResponses :
       LET r == get_market_analysis(symbols, hs, resp)
       IN  /\ analysis' = r.ret
           /\ calls' = calls + r.calls
           /\ okfetch' = [okfetch EXCEPT ![2] = \E k \in 1..N : HasData(hs[k])]
           /\ degraded' = (degraded \/ Degrades(r))
           /\ log2' = Append(log2, Entry("get_market_analysis", symbols, r))
  /\ j' = 1
  /\ pc' = IF N = 0 THEN "recommend" ELSE "companies2"
  /\ UNCHANGED <<symbols, market, companies, recs, report, company_data,
                 final_prompt, log1, unitvars>>

\* line 91: company_data = {symbol: get_company_analysis(symbol) for ...}, one item
CompanyAnalysis2 ==
  /\ pc = "companies2"
  /\ \E info \in InfoSamples, nw \in NewsSamples, resp \in PipeResponses :
       LET r == get_company_analysis(symbols[j], info, nw, resp)
       IN  IF r.exc
           THEN Raise
           ELSE /\ company_data' = Put(company_data, symbols[j], r.ret)
                /\ calls' = calls + r.calls
                /\ degraded' = (degraded \/ Degrades(r))
                /\ log2' = Append(log2, Entry("get_company_analysis", <<symbols[j]>>, r))
                /\ j' = IF j = N THEN 1 ELSE j + 1
                /\ pc' = IF j = N THEN "recommend" ELSE "companies2"
                /\ UNCHANGED <<symbols, market, companies, recs, report, analysis,
                               final_prompt, okfetch, log1, unitvars>>

\* lines 92-97: the recommendation prompt, ask_groq, return to line 102;
\* the frame of get_stock_recommendations is gone
Recommend ==
  /\ pc = "recommend"
  /\ \E resp \in PipeResponses :
       LET r == [ret |-> ask_groq(RecPrompt(analysis, company_data), resp), calls |-> 1]
       IN  /\ recs' = r.ret
           /\ calls' = calls + 1
           /\ degraded' = (degraded \/ Degrades(r))
           /\ log1' = Append(log1, Entry("get_stock_recommendations", symbols, r))
  /\ analysis' = Unset /\ company_data' = EmptyDict /\ log2' = <<>>
  /\ pc' = "final"
  /\ UNCHANGED <<symbols, j, market, companies, report, final_prompt, okfetch, unitvars>>

\* lines 103-115: the final prompt, ask_groq, return to the caller
FinalReport ==
  /\ pc = "final"
  /\ \E resp \in PipeResponses :
       LET r == [ret |-> ask_groq(FinalPrompt(market, companies, recs), resp), calls |-> 1]
       IN  /\ report' = r.ret
           /\ degraded' = (degraded \/ Degrades(r))
  /\ final_prompt' = FinalPrompt(market, companies, recs)
  /\ calls' = calls + 1
  /\ pc' = "done"
  /\ UNCHANGED <<symbols, j, market, companies, recs, analysis, company_data,
                 okfetch, log1, log2, unitvars>>

Next ==
  \/ MarketAnalysis1
  \/ CompanyAnalysis1
  \/ MarketAnalysis2
  \/ CompanyAnalysis2
  \/ Recommend
  \/ FinalReport

Spec == Init /\ [][Next]_vars

\* ------------------------------------------------ the functions on their own
Pending == [done |-> FALSE]

\* one function of the module is called with arguments and provider outcomes
UnitInit ==
  /\ PipeIdle
  /\ res = Pending
  /\ \/ /\ fn = "ask_groq"
        /\ arg \in [prompt : {MarketPrompt(EmptyDict)}, resp : Responses]
     \/ /\ fn = "compare_stocks"
        /\ \E ss \in SymbolLists :
             arg \in [symbols : {ss}, hs : [1..Len(ss) -> HistOutcomes]]
     \/ /\ fn = "get_market_analysis"
        /\ \E ss \in SymbolLists :
             arg \in [symbols : {ss}, hs : [1..Len(ss) -> HistOutcomes],
                      resp : PipeResponses]
     \/ /\ fn = "get_company_info"
        /\ arg \in [symbol : Symbols, info : InfoOutcomes]
     \/ /\ fn = "get_company_news"
        /\ arg \in [nw : NewsOutcomes]

CallAskGroq ==
  /\ fn = "ask_groq" /\ res = Pending
  /\ res' = [done |-> TRUE, ret |-> ask_groq(arg.prompt, arg.resp)]
  /\ UNCHANGED <<pipevars, fn, arg>>

CallCompareStocks ==
  /\ fn = "compare_stocks" /\ res = Pending
  /\ res' = [done |-> TRUE, ret |-> compare_stocks(arg.symbols, arg.hs)]
  /\ UNCHANGED <<pipevars, fn, arg>>

CallGetMarketAnalysis ==
  /\ fn = "get_market_analysis" /\ res = Pending
  /\ LET r == get_market_analysis(arg.symbols, arg.hs, arg.resp)
     IN  res' = [done |-> TRUE, ret |-> r.ret, calls |-> r.calls, prompt |-> r.prompt]
  /\ UNCHANGED <<pipevars, fn, arg>>

CallGetCompanyInfo ==
  /\ fn = "get_company_info" /\ res = Pending
  /\ LET r == get_company_info(arg.symbol, arg.info)
     IN  res' = [done |-> TRUE, exc |-> r.exc, ret |-> r.ret]
  /\ UNCHANGED <<pipevars, fn, arg>>

CallGetCompanyNews ==
  /\ fn = "get_company_news" /\ res = Pending
  /\ LET r == get_company_news(arg.nw)
     IN  res' = [done |-> TRUE, exc |-> r.exc, ret |-> r.ret]
  /\ UNCHANGED <<pipevars, fn, arg>>

UnitNext ==
  \/ CallAskGroq
  \/ CallCompareStocks
  \/ CallGetMarketAnalysis
  \/ CallGetCompanyInfo
  \/ CallGetCompanyNews

UnitSpec == UnitInit /\ [][UnitNext]_vars

\* ----------------------------------------------------------------- claims
Terminal == {"done", "raised"}

\* C1: get_final_report returns a text Report for every symbol list and every
\* combination of provider and completion-service failures, and never raises.
C1_NeverRaises ==
  /\ pc # "raised"
  /\ pc = "done" => report.type = "str"

\* C2: ask_groq returns a string carrying the marker "Groq API Error:" whenever
\* the exchange is anything but a success with generated text, and returns the
\* generated text unchanged on success.
C2_AskGroqFailSoft ==
  (fn = "ask_groq" /\ res.done) =>
    IF arg.resp.kind = "ok" /\ arg.resp.content.type = "str"
    THEN res.ret = arg.resp.content
    ELSE IsError(res.ret)

StatesNoData(v) == v.type = "str" /\ Sentinel \in Range(v.text)

\* C3 as stated: with an empty symbol list, or with no history found by any
\* lookup, the returned Report states that no valid data was found.
C3_ReportStatesNoData ==
  (pc = "done" /\ (symbols = <<>> \/ (~okfetch[1] /\ ~okfetch[2]))) =>
    StatesNoData(report)

\* C3 amended: when no history lookup of get_final_report's own market analysis
\* finds data (the empty list included), that analysis makes no completion call
\* and the Market Overview of the final prompt is the sentinel text; the Report
\* is what the completion service answers to that prompt.
C3_SentinelReachesFinalPrompt ==
  (pc = "done" /\ ~okfetch[1]) =>
    /\ log1[1].call = 0
    /\ market = Str(<<Sentinel>>)
    /\ final_prompt.market = <<Sentinel>>
    /\ \E resp \in PipeResponses : report = ask_groq(final_prompt, resp)

C3_Witness ==
  /\ pc = "done" /\ N = 2 /\ ~okfetch[1] /\ ~okfetch[2]
  /\ final_prompt.market = <<Sentinel>>
  /\ IsError(report)

\* C4 as stated: an invocation on N symbols with non-empty history issues
\* exactly N+3 completion calls.
C4_NPlus3Calls ==
  (pc = "done" /\ okfetch[1] /\ okfetch[2]) => calls = N + 3

Asked(b) == IF b THEN 1 ELSE 0

\* C4 amended: an invocation that returns has issued 2N+2 completion calls plus
\* one for each of its two market analyses that found non-empty history, 2N+4
\* when both did; no invocation issues more than 2N+4.
C4_CallCount ==
  /\ calls <= 2 * N + 4
  /\ pc = "done" => calls = 2 * N + 2 + Asked(okfetch[1]) + Asked(okfetch[2])

C4_Witness == pc = "done" /\ N = 2 /\ okfetch[1] /\ okfetch[2] /\ calls = 8

\* the positions whose history lookup returned a non-empty series
OkIdx(ss, hs) == {k \in 1..Len(ss) : HasData(hs[k])}

\* the last such position of symbol s
LastOk(ss, hs, s) ==
  CHOOSE k \in OkIdx(ss, hs) :
    ss[k] = s /\ \A m \in OkIdx(ss, hs) : ss[m] = s => m <= k

\* the performance map of the symbols with a non-empty series
ExpectedMap(ss, hs) ==
  [s \in {ss[k] : k \in OkIdx(ss, hs)} |-> PctChangeSum(hs[LastOk(ss, hs, s)].close)]

\* C5: get_market_analysis returns the sentinel without a completion call when
\* no symbol has a non-empty history; otherwise it makes exactly one call, whose
\* prompt embeds the performance map, and returns that call's output.
C5_MarketAnalysis ==
  (fn = "get_market_analysis" /\ res.done) =>
    IF OkIdx(arg.symbols, arg.hs) = {}
    THEN res.ret = Str(<<Sentinel>>) /\ res.calls = 0
    ELSE /\ res.calls = 1
         /\ res.prompt.data = ExpectedMap(arg.symbols, arg.hs)
         /\ res.ret = ask_groq(res.prompt, arg.resp)

C5_Witness ==
  /\ fn = "get_market_analysis" /\ res.done
  /\ Len(arg.symbols) = 2 /\ arg.symbols[1] # arg.symbols[2]
  /\ HasData(arg.hs[1]) /\ arg.hs[2] = [kind |-> "ok", close |-> <<>>]
  /\ res.calls = 1 /\ DOMAIN res.prompt.data = {arg.symbols[1]}

\* C6: the keys of compare_stocks(symbols) are exactly the input symbols whose
\* history lookup succeeded with a non-empty series, each with the sum of the
\* percentage changes of that series.
C6_CompareStocksKeys ==
  (fn = "compare_stocks" /\ res.done) =>
    /\ DOMAIN res.ret = {arg.symbols[k] : k \in OkIdx(arg.symbols, arg.hs)}
    /\ res.ret = ExpectedMap(arg.symbols, arg.hs)

C6_Witness ==
  /\ fn = "compare_stocks" /\ res.done
  /\ Len(arg.symbols) = 2 /\ arg.symbols[1] # arg.symbols[2]
  /\ arg.hs[1].kind = "raise" /\ arg.hs[2] = [kind |-> "ok", close |-> <<1>>]
  /\ DOMAIN res.ret = {arg.symbols[2]} /\ res.ret[arg.symbols[2]] = 0

\* C7: the prompt of get_final_report's last completion call embeds the output
\* of its market analysis, the outputs of its company analyses, one per element
\* of symbols in input order, and the output of get_stock_recommendations.
C7_FinalPromptEmbeds ==
  pc = "done" =>
    /\ Len(log1) = N + 2
    /\ log1[1].fn = "get_market_analysis" /\ log1[1].arg = symbols
    /\ final_prompt.market = Fmt(log1[1].ret)
    /\ Len(final_prompt.companies) = N
    /\ \A k \in 1..N :
         /\ log1[1 + k].fn = "get_company_analysis"
         /\ log1[1 + k].arg = <<symbols[k]>>
         /\ final_prompt.companies[k] = Fmt(log1[1 + k].ret)
    /\ log1[N + 2].fn = "get_stock_recommendations" /\ log1[N + 2].arg = symbols
    /\ final_prompt.recs = Fmt(log1[N + 2].ret)

C7_Witness ==
  /\ pc = "done" /\ N = 2 /\ symbols[1] = symbols[2]
  /\ final_prompt.market = <<Sentinel>>
  /\ IsError(companies[1]) /\ final_prompt.companies[1] = companies[1].text
  /\ final_prompt.companies[2] = <<"None">>
  /\ IsError(recs)

\* C8: once a completion call has returned an error string or a market analysis
\* has short-circuited, the run still ends with the final report's completion
\* call issued.
C8_NoStageSkipped ==
  (degraded /\ pc \in Terminal) => (pc = "done" /\ final_prompt # NoPrompt)

Degrade(v, default) == IF v = Absent THEN default ELSE v

C10_SameTexts ==
  pc = "recommend" =>
    /\ RecPrompt(analysis, company_data).analysis
         = FinalPrompt(market, companies, recs).market
    /\ \A k \in 1..N :
         RecPrompt(analysis, company_data).company_data[symbols[k]]
           = FinalPrompt(market, companies, recs).companies[k]

\* the last call of get_stock_recommendations that analysed symbol s
LastFor(s) ==
  CHOOSE k \in 2..Len(log2) : log2[k].arg = <<s>> /\ \A m \in k + 1..Len(log2) : log2[m].arg # <<s>>

CallsOf(log) == {log[k].call : k \in 1..Len(log)} \ {0}

\* C10 amended: the final prompt's market and company texts are the returns of
\* get_final_report's own calls, the recommendation prompt's are the returns of
\* the calls get_stock_recommendations made itself (for a repeated symbol, the
\* last one), and no completion call serves both.
C10_SeparateRounds ==
  pc = "recommend" =>
    /\ Len(log1) = N + 1 /\ Len(log2) = N + 1
    /\ FinalPrompt(market, companies, recs).market = Fmt(log1[1].ret)
    /\ \A k \in 1..N : FinalPrompt(market, companies, recs).companies[k] = Fmt(log1[1 + k].ret)
    /\ RecPrompt(analysis, company_data).analysis = Fmt(log2[1].ret)
    /\ DOMAIN RecPrompt(analysis, company_data).company_data = Range(symbols)
    /\ \A s \in Range(symbols) :
         RecPrompt(analysis, company_data).company_data[s] = Fmt(log2[LastFor(s)].ret)
    /\ CallsOf(log1) \cap CallsOf(log2) = {}

C10_Witness ==
  /\ pc = "recommend" /\ N = 2 /\ symbols[1] = symbols[2]
  /\ market # analysis
  /\ companies[2] # company_data[symbols[2]]
  /\ log2[2].ret # log2[3].ret

====
